---- MODULE Spec2Model ----
(***************************************************************************)
(* Retraining and model-lifecycle pipeline of monitory-model-serving.      *)
(*                                                                         *)
(* The model follows app/service/retrain_service.py: train_and_upload is   *)
(* a sequence of steps (list, load, prepare, balance, train, fetch the     *)
(* latest metrics, decide, four storage puts).  Several invocations may be *)
(* in flight at once (POST /retrain registers a background task per        *)
(* request), so each run has its own program counter and locals, and the   *)
(* model bucket is shared.                                                 *)
(*                                                                         *)
(* Floats are scaled to integers: an RMSE is a positive integer, an R2 is  *)
(* counted in hundredths (0.20 is 20), float("inf") is the integer Inf,    *)
(* larger than every RMSE a run produces.                                  *)
(*                                                                         *)
(* The scheduled job of app/scheduler.py (JobSpec) invokes the same runs   *)
(* behind its row-count gate.  The steps of the data preparation are pure  *)
(* functions of a frame; each has a specification of its own that draws    *)
(* the frame in its initial state and applies the step: the RUL label      *)
(* (RulSpec), the feature columns (FeatSpec), the balancer (BalSpec) and   *)
(* the alert labels (AlertSpec).  Sensor values and thresholds are counted *)
(* in hundredths, np.nan is the integer NaN.                               *)
(***************************************************************************)
EXTENDS Integers, FiniteSets, Sequences, TLC

\* ---------------------------------------------------------------- bounds
NumRuns == 2            \* invocations of train_and_upload
MaxRmse == 2            \* test RMSE values are 1..MaxRmse
MaxOverlap == 2         \* invocations in progress at the same time
MaxClock == 2           \* the wall clock runs over 0..MaxClock ticks
TicksPerSecond == 2     \* clock ticks per second (sub-second resolution)
MaxDay == 2             \* start_day and end_day are days 1..MaxDay
MaxTriggers == 2        \* triggers of the daily cron
MaxObjects == 2         \* objects a listing of the date range returns
MaxHour == 3            \* hours of a timeline after its lead
MaxFeatRows == 2        \* rows per equipment of a pivoted table
MaxZeroRows == 8        \* rows of RUL 0 handed to the balancer
MaxOtherRows == 2       \* rows of another RUL handed to the balancer
MaxReadings == 2        \* readings of a raw frame

\* ------------------------------------------------------ program constants
MIN_BALANCED_ROWS == 300
MIN_R2 == 20
Inf == 1000
None == -1
MIN_ROWS == 50000
BYTES_PER_ROW == 200
MAX_RUL == 30
NaN == -2
DOWNSTREAM_WIN == 5
DOWN_RATIO_ZERO == 20
FFILL_LIMIT == 3
MIN_ALERTS == 2
BFILL_LIMIT == 1

Runs == 1..NumRuns
RmseChoices == 1..MaxRmse
R2Choices == {MIN_R2 - 1, MIN_R2}
RowChoices == {MIN_BALANCED_ROWS - 1, MIN_BALANCED_ROWS}
TrainErrors == {"stratify_class_lt_2", "fit_error"}
VersionPaths == 0..(MaxClock \div TicksPerSecond)

VARIABLES
    pc,             \* pc[r]: position of run r in train_and_upload
    local,          \* local[r]: the local variables of run r (see NoLocals)
    train_call,     \* train_call[r]: how the call of _train_model ended
    written,        \* written[r]: the keys run r has put, in put order
    result,         \* result[r]: the dict returned by train_and_upload
    clock,          \* wall clock (ticks), as last read by utcnow()
    latestModel,    \* object at models/latest/lgbm_regressor.json
    latestMetrics,  \* object at models/latest/metrics.json
    versions,       \* objects under models/<version path>/
    job,            \* the scheduled job run_retrain_job (see NoJob)
    df_in,          \* the frame handed to a step of the data preparation
    df_out,         \* the frames that step returned, one per call
    rng42           \* what a generator seeded with random_state = 42 draws

vars == <<pc, local, train_call, written, result, clock, latestModel,
          latestMetrics, versions, job, df_in, df_out, rng42>>

bucket == <<latestModel, latestMetrics, versions>>

\* The variables of the data preparation: the orchestration of a run leaves
\* them alone.
dataPlane == <<df_in, df_out, rng42>>

\* ----------------------------------------------------------- the objects
\* An object of the model bucket.  "by" names the run whose model the
\* content belongs to (0: content that was there before the first run).
\* A metrics object carries rmse and r2; has_rmse is false for a metrics
\* document that has no "rmse" field.
NoObject == [exists |-> FALSE, by |-> 0, has_rmse |-> FALSE, rmse |-> 0, r2 |-> 0]
ModelObject(r) == [exists |-> TRUE, by |-> r, has_rmse |-> FALSE, rmse |-> 0, r2 |-> 0]
MetricsObject(r, m) == [exists |-> TRUE, by |-> r, has_rmse |-> TRUE, rmse |-> m.rmse, r2 |-> m.r2]
ForeignMetrics == [exists |-> TRUE, by |-> 0, has_rmse |-> FALSE, rmse |-> 0, r2 |-> 0]
NoVersion == [model |-> NoObject, metrics |-> NoObject]
NoMetrics == [rmse |-> 0, r2 |-> 0]
NoResult == [status |-> "none"]

\* The locals of train_and_upload before any of them is assigned, and after
\* the call has ended:
\*   rows         len(balanced_df)
\*   metrics      the metrics returned by _train_model
\*   old_rmse     the RMSE returned by _fetch_latest_rmse
\*   promote      the promotion decision
\*   version_dir  the version path
\*   p_bound      the prefix variable p has been assigned
NoLocals == [rows |-> 0, metrics |-> NoMetrics, old_rmse |-> 0,
             promote |-> FALSE, version_dir |-> 0, p_bound |-> FALSE]

\* meta.get("rmse", float("inf"))
MetaGetRmse(meta) == IF meta.has_rmse THEN meta.rmse ELSE Inf

\* What _fetch_latest_rmse returns for each end of its get_object call: the
\* object was read, NoSuchKey was raised, another exception was raised.
FetchOutcomes == {"read", "nokey", "error"}

\* NoSuchKey answered with 0.0 instead of float("inf").
FetchLatestRmseZeroIfAbsent(outcome, obj) ==
    IF outcome = "read" THEN MetaGetRmse(obj)
    ELSE IF outcome = "nokey" THEN 0 ELSE Inf

FetchLatestRmse(outcome, obj) ==
    IF outcome = "read" THEN MetaGetRmse(obj) ELSE Inf

\* "models/{:%Y/%m/%d/%H%M%S}/{}".format(now, "").rstrip("/"): the path keeps
\* the whole seconds of now and drops the fraction of the second.
VersionTemplate(now) == now \div TicksPerSecond

\* The gate one row too low.
TooFewRowsOffByOne(n) == n < MIN_BALANCED_ROWS - 1

\* len(balanced_df) < MIN_BALANCED_ROWS
TooFewRows(n) == n < MIN_BALANCED_ROWS

\* The comparison of the RMSEs not strict.
ShouldPromoteNotStrict(m, old) == (m.rmse <= old) /\ (m.r2 >= MIN_R2)

\* (metrics["rmse"] < old_rmse) and (metrics["r2"] >= MIN_R2)
ShouldPromote(m, old) == (m.rmse < old) /\ (m.r2 >= MIN_R2)

\* -------------------------------------------------------------- the state
\* The scheduled job between two triggers:
\*   at       position in run_retrain_job
\*   fired    triggers of the cron so far
\*   sizes    obj["Size"] of the objects the listing returned
\*   rows     the estimate _count_rows_in_s3_range returned
\*   run      the invocation of train_and_upload the job waits for
\*   last     how the last job ended
NoJob == [at |-> "idle", fired |-> 0, sizes |-> <<>>, rows |-> 0, run |-> 0,
          last |-> "none"]

\* No run has begun and the bucket is empty.
NoRuns ==
    /\ pc = [r \in Runs |-> "idle"]
    /\ local = [r \in Runs |-> NoLocals]
    /\ train_call = [r \in Runs |-> "not_called"]
    /\ written = [r \in Runs |-> <<>>]
    /\ result = [r \in Runs |-> NoResult]
    /\ clock = 0
    /\ latestModel = NoObject
    /\ versions = [p \in VersionPaths |-> NoVersion]

\* No frame is being prepared.
NoFrames == df_in = <<>> /\ df_out = <<>> /\ rng42 = <<>>

Init ==
    /\ NoRuns
    /\ latestMetrics = NoObject
    /\ job = NoJob
    /\ NoFrames

InFlight(r) == pc[r] \notin {"idle", "done", "raised"}

Goto(r, label) == pc' = [pc EXCEPT ![r] = label]

\* return res: the call ends and its locals are gone.
Return(r, res) ==
    /\ pc' = [pc EXCEPT ![r] = "done"]
    /\ result' = [result EXCEPT ![r] = res]
    /\ local' = [local EXCEPT ![r] = NoLocals]

\* An exception leaves train_and_upload: no result, the locals are gone.
Raise(r) ==
    /\ pc' = [pc EXCEPT ![r] = "raised"]
    /\ local' = [local EXCEPT ![r] = NoLocals]
    /\ UNCHANGED result

\* An invocation of train_and_upload begins (scheduled job, POST /retrain or
\* the command line).  Runs are numbered in the order they begin.
StartRun(r) ==
    /\ pc[r] = "idle"
    /\ \A q \in Runs : q < r => pc[q] # "idle"
    /\ Cardinality({q \in Runs : InFlight(q)}) < MaxOverlap
    /\ Goto(r, "list")
    /\ UNCHANGED <<local, train_call, written, result, clock, bucket, dataPlane>>

\* start_day and end_day: None, or a day.
DayArgs == {None} \cup (1..MaxDay)

\* "if start_day and end_day": the day-range mode.
DayRangeMode(start_day, end_day) == start_day # None /\ end_day # None

\* The prefixes the listing goes through: the days of "while day <= end" in
\* the day-range mode, else the one month prefix (0).
Prefixes(start_day, end_day) ==
    IF DayRangeMode(start_day, end_day) THEN start_day..end_day ELSE {0}

\* _list_object_keys over the prefixes; p is assigned once per prefix, and
\* keys are found under some of the prefixes or under none.
ListObjectKeys(r) ==
    /\ pc[r] = "list"
    /\ \E start_day \in DayArgs, end_day \in DayArgs :
         \E found \in SUBSET Prefixes(start_day, end_day) :
            /\ local' = [local EXCEPT ![r].p_bound = Prefixes(start_day, end_day) # {}]
            /\ Goto(r, IF found = {} THEN "no_keys" ELSE "load")
            /\ UNCHANGED result
    /\ UNCHANGED <<train_call, written, clock, bucket, job, dataPlane>>

\* if not keys: msg = f"... (prefix={p})"; return {error, msg}.  Reading p
\* when no prefix was gone through raises UnboundLocalError.
NoKeys(r) ==
    /\ pc[r] = "no_keys"
    /\ IF local[r].p_bound
       THEN Return(r, [status |-> "error", msg |-> "no_s3_data"])
       ELSE Raise(r)
    /\ UNCHANGED <<train_call, written, clock, bucket, job, dataPlane>>

\* _load_ndjson; "if raw_df.empty" returns an error.
LoadNdjson(r) ==
    /\ pc[r] = "load"
    /\ \E empty \in BOOLEAN :
         IF empty
         THEN Return(r, [status |-> "error", msg |-> "load_failed_empty_df"])
         ELSE Goto(r, "prepare") /\ UNCHANGED <<local, result>>
    /\ UNCHANGED <<train_call, written, clock, bucket, job, dataPlane>>

\* _prepare_training_df; an empty table returns an error.
PrepareTrainingDf(r) ==
    /\ pc[r] = "prepare"
    /\ \E empty \in BOOLEAN :
         IF empty
         THEN Return(r, [status |-> "error", msg |-> "preprocess_failed"])
         ELSE Goto(r, "balance") /\ UNCHANGED <<local, result>>
    /\ UNCHANGED <<train_call, written, clock, bucket, job, dataPlane>>

\* balanced_df = _balance_rul(df_wide) and the minimum-row gate.
BalanceRul(r) ==
    /\ pc[r] = "balance"
    /\ \E n \in RowChoices :
         IF TooFewRows(n)
         THEN Return(r, [status |-> "skip", reason |-> "too_few_rows", rows |-> n])
         ELSE /\ local' = [local EXCEPT ![r].rows = n]
              /\ Goto(r, "train")
              /\ UNCHANGED result
    /\ UNCHANGED <<train_call, written, clock, bucket, job, dataPlane>>

\* _train_model called outside any try block: its exception leaves
\* train_and_upload.
TrainModelUncaught(r) ==
    /\ pc[r] = "train"
    /\ \/ \E e \in TrainErrors :
            /\ train_call' = [train_call EXCEPT ![r] = e]
            /\ Raise(r)
       \/ \E x \in RmseChoices, y \in R2Choices :
            /\ train_call' = [train_call EXCEPT ![r] = "returned"]
            /\ local' = [local EXCEPT ![r].metrics = [rmse |-> x, r2 |-> y]]
            /\ Goto(r, "fetch")
            /\ UNCHANGED result
    /\ UNCHANGED <<written, clock, bucket, job, dataPlane>>

\* try: model, metrics = _train_model(balanced_df)
\* except Exception as e: return {error, train_failed, str(e)}
TrainModel(r) ==
    /\ pc[r] = "train"
    /\ \/ \E e \in TrainErrors :
            /\ train_call' = [train_call EXCEPT ![r] = e]
            /\ Return(r, [status |-> "error", reason |-> "train_failed", msg |-> e])
       \/ \E x \in RmseChoices, y \in R2Choices :
            /\ train_call' = [train_call EXCEPT ![r] = "returned"]
            /\ local' = [local EXCEPT ![r].metrics = [rmse |-> x, r2 |-> y]]
            /\ Goto(r, "fetch")
            /\ UNCHANGED result
    /\ UNCHANGED <<written, clock, bucket, job, dataPlane>>

\* old_rmse, old_meta = _fetch_latest_rmse()
\* promote = (metrics["rmse"] < old_rmse) and (metrics["r2"] >= MIN_R2)
\* now = datetime.utcnow(); version_dir = _VERSION_TEMPLATE.format(now, "")
DecidePromotion(r) ==
    /\ pc[r] = "fetch"
    /\ \E outcome \in FetchOutcomes, now \in clock..MaxClock :
         /\ outcome = "read" => latestMetrics.exists
         /\ outcome = "nokey" => ~latestMetrics.exists
         /\ clock' = now
         /\ LET old == FetchLatestRmse(outcome, latestMetrics) IN
            local' = [local EXCEPT ![r].old_rmse = old,
                                   ![r].promote = ShouldPromote(local[r].metrics, old),
                                   ![r].version_dir = VersionTemplate(now)]
    /\ Goto(r, "put_version_model")
    /\ UNCHANGED <<train_call, written, result, bucket, job, dataPlane>>

Put(r, key) == written' = [written EXCEPT ![r] = Append(@, key)]

\* A run that was not promoted reported as an error.
OkResultOnlyIfPromoted(r) ==
    IF local[r].promote
    THEN [status |-> "ok", trained_on |-> local[r].rows, metrics |-> local[r].metrics,
          promoted |-> TRUE, version_dir |-> local[r].version_dir,
          prev_rmse |-> IF local[r].old_rmse # Inf THEN local[r].old_rmse ELSE None]
    ELSE [status |-> "error", reason |-> "not_promoted", msg |-> "not_promoted"]

\* The dict train_and_upload returns after _upload.
OkResult(r) ==
    [status |-> "ok", trained_on |-> local[r].rows, metrics |-> local[r].metrics,
     promoted |-> local[r].promote, version_dir |-> local[r].version_dir,
     prev_rmse |-> IF local[r].old_rmse # Inf THEN local[r].old_rmse ELSE None]

\* _upload: put version_key + "/lgbm_regressor.json"
UploadVersionModel(r) ==
    /\ pc[r] = "put_version_model"
    /\ versions' = [versions EXCEPT ![local[r].version_dir].model = ModelObject(r)]
    /\ Put(r, "version_model")
    /\ Goto(r, "put_version_metrics")
    /\ UNCHANGED <<local, train_call, result, clock, latestModel, latestMetrics, job, dataPlane>>

\* _upload without the test of promote: the latest puts always follow.
UploadVersionMetricsThenLatest(r) ==
    /\ pc[r] = "put_version_metrics"
    /\ versions' = [versions EXCEPT ![local[r].version_dir].metrics =
                                        MetricsObject(r, local[r].metrics)]
    /\ Put(r, "version_metrics")
    /\ Goto(r, "put_latest_model")
    /\ UNCHANGED <<local, result, train_call, clock, latestModel, latestMetrics, job, dataPlane>>

\* _upload: put version_key + "/metrics.json"; without promote, _upload
\* ends here and train_and_upload returns its result.
UploadVersionMetrics(r) ==
    /\ pc[r] = "put_version_metrics"
    /\ versions' = [versions EXCEPT ![local[r].version_dir].metrics =
                                        MetricsObject(r, local[r].metrics)]
    /\ Put(r, "version_metrics")
    /\ IF local[r].promote
       THEN Goto(r, "put_latest_model") /\ UNCHANGED <<local, result>>
       ELSE Return(r, OkResult(r))
    /\ UNCHANGED <<train_call, clock, latestModel, latestMetrics, job, dataPlane>>

\* _upload, if promote: put models/latest/lgbm_regressor.json
UploadLatestModel(r) ==
    /\ pc[r] = "put_latest_model"
    /\ latestModel' = ModelObject(r)
    /\ Put(r, "latest_model")
    /\ Goto(r, "put_latest_metrics")
    /\ UNCHANGED <<local, train_call, result, clock, latestMetrics, versions, job, dataPlane>>

\* _upload, if promote: put models/latest/metrics.json, then the return of
\* train_and_upload.
UploadLatestMetrics(r) ==
    /\ pc[r] = "put_latest_metrics"
    /\ latestMetrics' = MetricsObject(r, local[r].metrics)
    /\ Put(r, "latest_metrics")
    /\ Return(r, OkResult(r))
    /\ UNCHANGED <<train_call, clock, latestModel, versions, job, dataPlane>>

\* A call of the object store that is in no try block raises (the listing,
\* the get of a raw object, a put): nothing is written and the exception
\* leaves train_and_upload.
UncaughtCalls == {"list", "load", "put_version_model", "put_version_metrics",
                  "put_latest_model", "put_latest_metrics"}
StorageError(r) ==
    /\ pc[r] \in UncaughtCalls
    /\ Raise(r)
    /\ UNCHANGED <<train_call, written, clock, bucket, job, dataPlane>>

Step(r) ==
    \/ ListObjectKeys(r)
    \/ NoKeys(r)
    \/ LoadNdjson(r)
    \/ PrepareTrainingDf(r)
    \/ BalanceRul(r)
    \/ TrainModel(r)
    \/ DecidePromotion(r)
    \/ UploadVersionModel(r)
    \/ UploadVersionMetrics(r)
    \/ UploadLatestModel(r)
    \/ UploadLatestMetrics(r)
    \/ StorageError(r)

\* POST /retrain: background_tasks.add_task(train_and_upload).
PostRetrain(r) == StartRun(r) /\ UNCHANGED job

Next == \E r \in Runs : PostRetrain(r) \/ Step(r)

Spec == Init /\ [][Next]_vars

\* Runs executed one after another: a run begins only when no other run is
\* in progress.
StartRunAlone(r) ==
    /\ \A q \in Runs : ~InFlight(q)
    /\ StartRun(r)
    /\ UNCHANGED job
SeqNext == \E r \in Runs : StartRunAlone(r) \/ Step(r)
\* The bucket may already hold a metrics document that has no "rmse" field.
SeqInit ==
    /\ NoRuns
    /\ latestMetrics \in {NoObject, ForeignMetrics}
    /\ job = NoJob
    /\ NoFrames
SeqSpec == SeqInit /\ [][SeqNext]_vars

\* ------------------------------------------------------ the scheduled job
\* obj["Size"] of a listed object: below and at one estimated row, below and
\* at the number of bytes that makes MIN_ROWS estimated rows.
SizeChoices == {BYTES_PER_ROW - 1, BYTES_PER_ROW,
                MIN_ROWS * BYTES_PER_ROW - 1, MIN_ROWS * BYTES_PER_ROW}
Listings == UNION {[1..n -> SizeChoices] : n \in 0..MaxObjects}

\* total = 0; for obj in the listings of the days: total += obj["Size"] // 200
RECURSIVE CountRowsInS3Range(_)
CountRowsInS3Range(sizes) ==
    IF sizes = <<>> THEN 0
    ELSE CountRowsInS3Range(SubSeq(sizes, 1, Len(sizes) - 1))
         + (sizes[Len(sizes)] \div BYTES_PER_ROW)

\* The gate that also stops an estimate of exactly MIN_ROWS.
NotEnoughRowsNotStrict(rows) == rows <= MIN_ROWS

\* rows < MIN_ROWS
NotEnoughRows(rows) == rows < MIN_ROWS

\* The cron fires; run_retrain_job computes its date range and
\* rows = _count_rows_in_s3_range(start_day, end_day).
JobCountRows ==
    /\ job.at = "idle"
    /\ job.fired < MaxTriggers
    /\ \E sizes \in Listings :
         job' = [job EXCEPT !.at = "gate", !.fired = @ + 1, !.sizes = sizes,
                            !.rows = CountRowsInS3Range(sizes)]
    /\ UNCHANGED <<pc, local, train_call, written, result, clock, bucket, dataPlane>>

\* list_objects_v2 raises inside _count_rows_in_s3_range: the call is in no
\* try block and the exception ends the job.
JobCountError ==
    /\ job.at = "idle"
    /\ job.fired < MaxTriggers
    /\ job' = [job EXCEPT !.fired = @ + 1, !.last = "crashed"]
    /\ UNCHANGED <<pc, local, train_call, written, result, clock, bucket, dataPlane>>

\* if rows < MIN_ROWS: return
JobSkip ==
    /\ job.at = "gate"
    /\ NotEnoughRows(job.rows)
    /\ job' = [job EXCEPT !.at = "idle", !.sizes = <<>>, !.rows = 0, !.last = "skipped"]
    /\ UNCHANGED <<pc, local, train_call, written, result, clock, bucket, dataPlane>>

\* try: result = train_and_upload(start_day = start_day, end_day = end_day)
JobInvoke(r) ==
    /\ job.at = "gate"
    /\ ~NotEnoughRows(job.rows)
    /\ StartRun(r)
    /\ job' = [job EXCEPT !.at = "running", !.sizes = <<>>, !.rows = 0, !.run = r]

\* A job that calls train_and_upload again after an exception.
JobFinishRetry(r) ==
    /\ job.at = "running"
    /\ job.run = r
    /\ pc[r] \in {"done", "raised"}
    /\ job' = IF pc[r] = "done"
                 THEN [job EXCEPT !.at = "idle", !.run = 0, !.last = "returned"]
                 ELSE [job EXCEPT !.at = "gate", !.run = 0, !.rows = MIN_ROWS]
    /\ UNCHANGED <<pc, local, train_call, written, result, clock, bucket, dataPlane>>

\* train_and_upload returned, or raised into "except Exception".
JobFinish(r) ==
    /\ job.at = "running"
    /\ job.run = r
    /\ pc[r] \in {"done", "raised"}
    /\ job' = [job EXCEPT !.at = "idle", !.run = 0,
                          !.last = IF pc[r] = "done" THEN "returned" ELSE "caught"]
    /\ UNCHANGED <<pc, local, train_call, written, result, clock, bucket, dataPlane>>

\* The scheduler alone: every invocation comes from the daily job.
JobNext ==
    \/ JobCountRows
    \/ JobCountError
    \/ JobSkip
    \/ \E r \in Runs : JobInvoke(r) \/ JobFinish(r) \/ Step(r)

JobSpec == Init /\ [][JobNext]_vars

\* One service instance: the daily job of the scheduler and the background
\* tasks of POST /retrain start runs of the same train_and_upload.
ServiceNext ==
    \/ JobNext
    \/ \E r \in Runs : PostRetrain(r)

ServiceSpec == Init /\ [][ServiceNext]_vars

\* ------------------------------------------------------------ the RUL label
\* The wide table before the RUL is added: per equipment (in equipId order)
\* the rows of its timeline in time order, a row being the hour it stands
\* for and its faulty flag.
Equipments == {1, 2}
HourRows == [hour : 1..MaxHour, faulty : {0, 1}]
Tails ==
    UNION {{t \in [1..n -> HourRows] : \A i \in 1..(n - 1) : t[i].hour < t[i + 1].hour} :
           n \in 0..MaxHour}

\* The timeline of the first equipment begins with a lead of rows without
\* fault, none or one more than MAX_RUL, at consecutive hours.
LeadChoices == {0, MAX_RUL + 1}
WithLead(l, t) ==
    [i \in 1..(l + Len(t)) |->
        IF i <= l THEN [hour |-> i, faulty |-> 0]
        ELSE [hour |-> l + t[i - l].hour, faulty |-> t[i - l].faulty]]
Timelines == {WithLead(l, t) : l \in LeadChoices, t \in Tails}
RulInputs == {df \in [Equipments -> Timelines] : \A e \in Equipments \ {1} : df[e] \in Tails}

\* The count going down instead of up: nxt - 1.
NextRulCountingDown(faulty, nxt) ==
    IF faulty = 1 THEN 0
    ELSE IF nxt # None THEN (IF nxt = NaN THEN NaN ELSE nxt - 1)
    ELSE NaN

\* nxt = 0 on a faulty row, else (nxt + 1) if nxt is not None else np.nan;
\* np.nan + 1 is np.nan.
NextRul(faulty, nxt) ==
    IF faulty = 1 THEN 0
    ELSE IF nxt # None THEN (IF nxt = NaN THEN NaN ELSE nxt + 1)
    ELSE NaN

\* for i in range(n - 1, -1, -1): ...; rul[i] = nxt
RECURSIVE AddRulLoop(_, _, _, _)
AddRulLoop(g, i, nxt, rul) ==
    IF i = 0 THEN rul
    ELSE LET n == NextRul(g[i].faulty, nxt) IN
         AddRulLoop(g, i - 1, n, [rul EXCEPT ![i] = n])

\* _add_rul(g): rul = np.full(n, np.nan), nxt = None, the loop.
AddRul(g) == AddRulLoop(g, Len(g), None, [i \in 1..Len(g) |-> NaN])

\* _add_rul applied to the whole table at once, the rows of the equipment
\* one after another.
RECURSIVE Concat(_, _)
Concat(df, e) == IF e = 0 THEN <<>> ELSE Concat(df, e - 1) \o df[e]
Offset(df, e) == Len(Concat(df, e - 1))
ApplyAddRulUngrouped(df) ==
    LET all == AddRul(Concat(df, Cardinality(DOMAIN df))) IN
    [e \in DOMAIN df |-> [i \in 1..Len(df[e]) |-> all[Offset(df, e) + i]]]

\* df_wide.groupby("equipId", group_keys = False).apply(_add_rul)
GroupByApplyAddRul(df) == [e \in DOMAIN df |-> AddRul(df[e])]

\* fillna(_MAX_RUL) without the clip.
FillNaOnly(x) == IF x = NaN THEN MAX_RUL ELSE x

\* .fillna(_MAX_RUL).clip(upper = _MAX_RUL)
FillNaClip(x) ==
    LET filled == IF x = NaN THEN MAX_RUL ELSE x IN
    IF filled > MAX_RUL THEN MAX_RUL ELSE filled

\* The table with its rul column (lines 177-178).
WithRul(df) ==
    LET rul == GroupByApplyAddRul(df) IN
    [e \in DOMAIN df |->
        [i \in 1..Len(df[e]) |->
            [hour |-> df[e][i].hour, faulty |-> df[e][i].faulty,
             rul |-> FillNaClip(rul[e][i])]]]

RulInit ==
    /\ NoRuns
    /\ latestMetrics = NoObject
    /\ job = NoJob
    /\ df_in \in RulInputs
    /\ df_out = <<>>
    /\ rng42 = <<>>

\* _prepare_training_df adds the rul column to the wide table.
AddRulColumn ==
    /\ df_out = <<>>
    /\ df_out' = <<WithRul(df_in)>>
    /\ UNCHANGED <<pc, local, train_call, written, result, clock, bucket, job,
                   df_in, rng42>>

RulSpec == RulInit /\ [][AddRulColumn]_vars

\* ------------------------------------------------------- the feature builder
\* The sensor types kept from the raw events (keep, num_cols, raw_cols) and
\* the names they get at the end (sensor_map).
KEEP == {"active_power", "humid", "pressure", "reactive_power", "temp", "vibration"}
SensorMap(s) == IF s = "temp" THEN "temperature" ELSE IF s = "humid" THEN "humidity" ELSE s

\* A column of the table is <<sensor, kind>>.  The numeric columns of
\* FEATURE_COLS (the remaining one, equipment, is categorical):
NUMERIC_FEATURE_COLS ==
    ({"temperature", "pressure", "vibration", "humidity", "active_power", "reactive_power"}
        \X {"raw", "rollmean", "rollstd"})
    \cup {<<"power_factor", "raw">>}

\* The table after the pivot: per equipment (in equipId order) its rows in
\* time order; a row gives every sensor type its value of the hour (the max
\* of the readings), or NaN when the hour has no reading of that type.
\* One sensor type is missing now and then, the others always have a value.
ValChoices == {0, 2}
OtherVal == 2
FeatTimelines(s) ==
    UNION {[1..n -> {[c \in KEEP |-> IF c = s THEN v ELSE OtherVal] : v \in ValChoices \cup {NaN}}] :
           n \in 1..MaxFeatRows}
FeatInputs == UNION {[Equipments -> FeatTimelines(s)] : s \in KEEP}

\* The columns pivot_table makes: the sensor types that occur in the data.
PivotColumns(df) ==
    {s \in KEEP : \E e \in DOMAIN df : \E i \in 1..Len(df[e]) : df[e][i][s] # NaN}

RECURSIVE SumOver(_, _, _)
SumOver(g, s, J) ==
    IF J = {} THEN 0
    ELSE LET j == CHOOSE x \in J : TRUE IN g[j][s] + SumOver(g, s, J \ {j})
RECURSIVE SumSqOver(_, _, _)
SumSqOver(g, s, J) ==
    IF J = {} THEN 0
    ELSE LET j == CHOOSE x \in J : TRUE IN g[j][s] * g[j][s] + SumSqOver(g, s, J \ {j})

\* The observations of rolling(win, 1) at row i of a group.
Window(g, i, s) ==
    {j \in 1..i : j > i - DOWNSTREAM_WIN /\ g[j][s] # NaN}

\* grp.rolling(win, 1).mean(), in sixtieths: NaN without any observation.
RollMean(g, i, s) ==
    LET W == Window(g, i, s) IN
    IF W = {} THEN NaN ELSE (60 * SumOver(g, s, W)) \div Cardinality(W)

\* grp.rolling(win, 1).std().fillna(0), kept as the variance in sixtieths:
\* the sample deviation of fewer than two observations is NaN.
RollStd(g, i, s) ==
    LET W == Window(g, i, s)
        n == Cardinality(W)
    IN  IF n < 2 THEN 0
        ELSE (60 * (n * SumSqOver(g, s, W) - SumOver(g, s, W) * SumOver(g, s, W)))
             \div (n * (n - 1))

\* (active_power / sqrt(active_power ** 2 + reactive_power ** 2)).fillna(0),
\* kept as its square in fortieths.
PowerFactor(row) ==
    LET a == row["active_power"]
        r == row["reactive_power"]
    IN  IF a = NaN \/ r = NaN \/ a * a + r * r = 0 THEN 0
        ELSE (40 * a * a) \div (a * a + r * r)

\* groupby("equipId")[raw_cols].ffill(limit = 3): the last value of the
\* group at most three rows back.
FFill(g, i, s) ==
    IF g[i][s] # NaN THEN g[i][s]
    ELSE LET J == {j \in 1..(i - 1) : j >= i - FFILL_LIMIT /\ g[j][s] # NaN} IN
         IF J = {} THEN NaN
         ELSE g[CHOOSE j \in J : \A k \in J : k <= j][s]

\* The rows of the sorted table, one equipment after the other, forward
\* filled.
FFilled(df) ==
    LET filled == [e \in DOMAIN df |->
                      [i \in 1..Len(df[e]) |-> [s \in KEEP |-> FFill(df[e], i, s)]]]
    IN  Concat(filled, Cardinality(DOMAIN df))

\* .bfill(limit = 1) on the frame ffill returned, which has no groups: the
\* value of the next row of the table.
BFill(all, k, s) ==
    IF all[k][s] # NaN THEN all[k][s]
    ELSE IF k + BFILL_LIMIT <= Len(all) THEN all[k + BFILL_LIMIT][s] ELSE NaN

\* df_wide[c].median(), doubled: the middle value of the column, or the sum
\* of the two middle values; NaN for a column without value.
KthSmallest(all, s, J, k) ==
    CHOOSE v \in {all[j][s] : j \in J} :
        /\ Cardinality({j \in J : all[j][s] < v}) < k
        /\ Cardinality({j \in J : all[j][s] <= v}) >= k
Median(all, s) ==
    LET J == {j \in 1..Len(all) : all[j][s] # NaN}
        n == Cardinality(J)
    IN  IF n = 0 THEN NaN
        ELSE IF n % 2 = 1 THEN 2 * KthSmallest(all, s, J, (n + 1) \div 2)
        ELSE KthSmallest(all, s, J, n \div 2) + KthSmallest(all, s, J, n \div 2 + 1)

\* Lines 140-143: the raw columns after ffill, bfill and fillna(median),
\* doubled.
RawFilled(df) ==
    LET ff == FFilled(df)
        bf == [k \in 1..Len(ff) |-> [s \in KEEP |-> BFill(ff, k, s)]]
    IN  [k \in 1..Len(bf) |->
            [s \in KEEP |-> IF bf[k][s] # NaN THEN 2 * bf[k][s] ELSE Median(bf, s)]]

\* The row of the returned table for row i of equipment e, under the names
\* of sensor_map.
FeatureRow(df, e, i) ==
    LET raw == RawFilled(df)[Offset(df, e) + i]
        cells == [c \in KEEP \X {"raw", "rollmean", "rollstd"} |->
                    IF c[2] = "raw" THEN raw[c[1]]
                    ELSE IF c[2] = "rollmean" THEN RollMean(df[e], i, c[1])
                    ELSE RollStd(df[e], i, c[1])]
    IN  [c \in NUMERIC_FEATURE_COLS |->
            IF c[1] = "power_factor" THEN PowerFactor(df[e][i])
            ELSE cells[<<CHOOSE s \in KEEP : SensorMap(s) = c[1], c[2]>>]]

NoTable == [e \in Equipments |-> <<>>]

\* _prepare_training_df from the pivoted table on: df_wide.groupby(...)[col]
\* raises KeyError for a col of num_cols that is no column of the table.
PrepareFeatures(df) ==
    IF PivotColumns(df) # KEEP
    THEN [status |-> "KeyError", table |-> NoTable]
    ELSE [status |-> "returned",
          table |-> [e \in DOMAIN df |-> [i \in 1..Len(df[e]) |-> FeatureRow(df, e, i)]]]

FeatInit ==
    /\ NoRuns
    /\ latestMetrics = NoObject
    /\ job = NoJob
    /\ df_in \in FeatInputs
    /\ df_out = <<>>
    /\ rng42 = <<>>

BuildFeatures ==
    /\ df_out = <<>>
    /\ df_out' = <<PrepareFeatures(df_in)>>
    /\ UNCHANGED <<pc, local, train_call, written, result, clock, bucket, job,
                   df_in, rng42>>

FeatSpec == FeatInit /\ [][BuildFeatures]_vars

\* Two pivoted tables that differ in the rows of the second equipment only,
\* and the feature builder called on the one, then on the other.
FeatPairs(s) ==
    {<<df, [df EXCEPT ![2] = t]>> :
        df \in [Equipments -> FeatTimelines(s)], t \in FeatTimelines(s)}

ImputeInit ==
    /\ NoRuns
    /\ latestMetrics = NoObject
    /\ job = NoJob
    /\ df_in \in UNION {FeatPairs(s) : s \in KEEP}
    /\ df_out = <<>>
    /\ rng42 = <<>>

BuildFeaturesOfNext ==
    /\ Len(df_out) < Len(df_in)
    /\ df_out' = Append(df_out, PrepareFeatures(df_in[Len(df_out) + 1]))
    /\ UNCHANGED <<pc, local, train_call, written, result, clock, bucket, job,
                   df_in, rng42>>

ImputeSpec == ImputeInit /\ [][BuildFeaturesOfNext]_vars

\* -------------------------------------------------------------- the balancer
\* OVER_RATIO[k] for k = 1..15.  DOWN_RATIO_ZERO is counted in hundredths.
OVER_RATIO == <<3, 8, 8, 10, 10, 12, 16, 17, 19, 20, 20, 20, 20, 20, 20>>

\* The frame handed to _balance_rul: rows of RUL 0 followed by rows of one
\* other RUL.  A row is its position in the frame and its rul; its feature
\* columns go with it.
BalFrame(n0, k, c) ==
    [i \in 1..(n0 + c) |-> [id |-> i, rul |-> IF i <= n0 THEN 0 ELSE k]]
BalInputs ==
    {BalFrame(n0, k, c) : n0 \in 0..MaxZeroRows, k \in 1..MAX_RUL, c \in 0..MaxOtherRows}

\* df[df.rul == k], in the order of the frame.
RulEquals(df, k) == SelectSeq(df, LAMBDA row : row.rul = k)

\* The number of rows sample(frac = ...) returns: round(frac * len).
SampleSize(n) == (2 * DOWN_RATIO_ZERO * n + 100) \div 200

\* What a generator seeded with 42 draws for a sample of n rows: for the
\* i-th row of the sample a number in 1..(n - i + 1).
Draws(n) == {u \in [1..SampleSize(n) -> 1..n] : \A i \in DOMAIN u : u[i] <= n - i + 1}

Remove(rows, j) == [i \in 1..(Len(rows) - 1) |-> IF i < j THEN rows[i] ELSE rows[i + 1]]

\* The sample taken with replacement: the draws index the rows directly.
SampleWithReplacement(rows, u) == [i \in DOMAIN u |-> rows[u[i]]]

\* sample(frac, random_state = 42), replace = False: the i-th draw takes one
\* of the rows not taken yet.
RECURSIVE Sample(_, _)
Sample(rows, u) ==
    IF u = <<>> THEN <<>>
    ELSE <<rows[u[1]]>> \o Sample(Remove(rows, u[1]), Tail(u))

\* The rows kept next to their v copies.
RepeatOnceMore(tmp, v) == [i \in 1..(Len(tmp) * (v + 1)) |-> tmp[((i - 1) % Len(tmp)) + 1]]

\* pd.concat([tmp] * v, ignore_index = True)
Repeat(tmp, v) == [i \in 1..(Len(tmp) * v) |-> tmp[((i - 1) % Len(tmp)) + 1]]

\* for k, v in OVER_RATIO.items(): tmp = df[df.rul == k];
\*     if not tmp.empty: dfs.append(pd.concat([tmp] * v))
RECURSIVE Oversampled(_, _)
Oversampled(df, k) ==
    IF k = 0 THEN <<>>
    ELSE Oversampled(df, k - 1) \o Repeat(RulEquals(df, k), OVER_RATIO[k])

\* pd.concat(dfs).sample(frac = 1, random_state = 42) returns every row of
\* dfs once, in another order; the returned frame is kept as the number of
\* copies of every row of df in it.
Copies(df, dfs) ==
    [i \in 1..Len(df) |-> Cardinality({j \in 1..Len(dfs) : dfs[j] = df[i]})]

\* _balance_rul(df)
BalanceRulFrame(df, u) ==
    LET zero_df == Sample(RulEquals(df, 0), u)
        dfs == zero_df \o Oversampled(df, Len(OVER_RATIO))
    IN  Copies(df, dfs)

BalInit ==
    /\ NoRuns
    /\ latestMetrics = NoObject
    /\ job = NoJob
    /\ df_in \in BalInputs
    /\ df_out = <<>>
    /\ rng42 \in Draws(Len(RulEquals(df_in, 0)))

\* A call of _balance_rul on the frame; every call seeds its generator
\* with random_state = 42.
CallBalanceRul ==
    /\ Len(df_out) < 2
    /\ df_out' = Append(df_out, BalanceRulFrame(df_in, rng42))
    /\ UNCHANGED <<pc, local, train_call, written, result, clock, bucket, job,
                   df_in, rng42>>

BalSpec == BalInit /\ [][CallBalanceRul]_vars

\* ------------------------------------------------------------- the alerts
\* constants.ALERT_THRESH, (lo, hi) per sensor name, in hundredths.
ALERT_THRESH ==
    [temperature    |-> [lo |-> 4100, hi |-> 10100],
     pressure       |-> [lo |-> 460,  hi |-> 6688],
     vibration      |-> [lo |-> -50,  hi |-> 380],
     humidity       |-> [lo |-> 1450, hi |-> 8554],
     active_power   |-> [lo |-> 0,    hi |-> 16802600],
     reactive_power |-> [lo |-> 0,    hi |-> 8675900]]

\* The sensorType of a raw event: the six kept names, the two long names of
\* the threshold table and a type that is not kept.
RawTypes == KEEP \cup {"temperature", "humidity", "current"}

\* The values next to the limits of the sensor a raw type stands for.
NearLimits(s) ==
    LET name == SensorMap(s)
        t == IF name \in DOMAIN ALERT_THRESH THEN ALERT_THRESH[name]
             ELSE ALERT_THRESH["pressure"]
    IN  {t.lo - 1, t.lo, t.hi, t.hi + 1}
Readings == UNION {{[sensorType |-> s, val |-> v] : v \in NearLimits(s)} : s \in RawTypes}
RawFrames == UNION {[1..n -> Readings] : n \in 0..MaxReadings}

\* df_use = df[df["sensorType"].isin(keep)]
Retained(df) == SelectSeq(df, LAMBDA rd : rd.sensorType \in KEEP)

\* df_use["alert"] = 0; for sensor, (lo, hi) in ALERT_THRESH.items():
\*     m = df_use["sensorType"] == sensor
\*     df_use.loc[m, "alert"] = (vals < lo) | (vals > hi)
Alert(rd) ==
    IF rd.sensorType \in DOMAIN ALERT_THRESH
    THEN (IF rd.val < ALERT_THRESH[rd.sensorType].lo \/ rd.val > ALERT_THRESH[rd.sensorType].hi
          THEN 1 ELSE 0)
    ELSE 0
LabelAlerts(df) ==
    LET df_use == Retained(df) IN
    [i \in 1..Len(df_use) |->
        [sensorType |-> df_use[i].sensorType, val |-> df_use[i].val,
         alert |-> Alert(df_use[i])]]

AlertInit ==
    /\ NoRuns
    /\ latestMetrics = NoObject
    /\ job = NoJob
    /\ df_in \in RawFrames
    /\ df_out = <<>>
    /\ rng42 = <<>>

\* _prepare_training_df filters the readings and labels them.
LabelReadings ==
    /\ df_out = <<>>
    /\ df_out' = <<LabelAlerts(df_in)>>
    /\ UNCHANGED <<pc, local, train_call, written, result, clock, bucket, job,
                   df_in, rng42>>

AlertSpec == AlertInit /\ [][LabelReadings]_vars

\* ----------------------------------------------------------- the fault flag
\* A raw event with the hour its timestamp floors to and its equipment.
FaultHours == {1, 2}
Events ==
    {[ts_hour |-> h, equipId |-> e, sensorType |-> rd.sensorType, val |-> rd.val] :
        h \in FaultHours, e \in Equipments, rd \in Readings}
EventFrames(n) == [1..n -> Events]

\* The (ts_hour, equipId) groups of the retained readings: the rows of the
\* pivot table and the entries of the alert aggregation.
Groups(df_use) == {<<df_use[i].ts_hour, df_use[i].equipId>> : i \in 1..Len(df_use)}

\* df_use.groupby(["ts_hour", "equipId"])["alert"].sum()
AlertSum(df_use, key) ==
    Cardinality({i \in 1..Len(df_use) :
        /\ <<df_use[i].ts_hour, df_use[i].equipId>> = key
        /\ Alert(df_use[i]) = 1})

\* faulty["faulty"] = (faulty["cnt"] >= 2).astype(int)
Faulty(cnt) == IF cnt >= MIN_ALERTS THEN 1 ELSE 0

\* df_wide.merge(faulty, on = ["timestamp", "equipId"], how = "left")
\*        .fillna({"faulty": 0})
MergeFaulty(df) ==
    LET df_use == Retained(df)
        faulty == [key \in Groups(df_use) |-> Faulty(AlertSum(df_use, key))]
    IN  [key \in Groups(df_use) |-> IF key \in DOMAIN faulty THEN faulty[key] ELSE 0]

FaultInit ==
    /\ NoRuns
    /\ latestMetrics = NoObject
    /\ job = NoJob
    /\ df_in \in UNION {EventFrames(n) : n \in 0..MaxReadings}
    /\ df_out = <<>>
    /\ rng42 = <<>>

\* _prepare_training_df labels the readings and flags the rows.
FlagRows ==
    /\ df_out = <<>>
    /\ df_out' = <<MergeFaulty(df_in)>>
    /\ UNCHANGED <<pc, local, train_call, written, result, clock, bucket, job,
                   df_in, rng42>>

FaultSpec == FaultInit /\ [][FlagRows]_vars

\* The rows of the returned frame, and those of RUL k.
RowsOut(out) == LET RECURSIVE Sum(_)
                    Sum(n) == IF n = 0 THEN 0 ELSE out[n] + Sum(n - 1)
                IN  Sum(Len(out))
Histogram(df, out) ==
    [k \in 0..MAX_RUL |->
        LET RECURSIVE Sum(_)
            Sum(n) == IF n = 0 THEN 0
                      ELSE (IF df[n].rul = k THEN out[n] ELSE 0) + Sum(n - 1)
        IN  Sum(Len(out))]

\* ======================================================================
\* Properties
\* ======================================================================
\* Run r has taken its promotion decision and is inside _upload.
InUpload(r) == pc[r] \in {"put_version_model", "put_version_metrics",
                          "put_latest_model", "put_latest_metrics"}
Has(r, key) == \E i \in 1..Len(written[r]) : written[r][i] = key
VersionKeys == {"version_model", "version_metrics"}
LatestKeys == {"latest_model", "latest_metrics"}
IsVersionKey(k) == k \in VersionKeys
IsLatestKey(k) == k \in LatestKeys
\* The previous RMSE a result reports (None stands for float("inf")).
PrevRmse(res) == IF res.prev_rmse = None THEN Inf ELSE res.prev_rmse

\* C1: once training has succeeded, the promotion decision of a run is
\* true exactly when its test RMSE is strictly below the RMSE obtained from
\* the latest metrics and its R2 is at least MIN_R2; the result reports that
\* decision, a run writes a latest object only under a true decision, and a
\* run that returned has overwritten both latest objects exactly when the
\* decision was true.
C1_PromoteIffBetter ==
    \A r \in Runs :
      /\ InUpload(r) =>
           /\ local[r].promote <=>
                (local[r].metrics.rmse < local[r].old_rmse /\ local[r].metrics.r2 >= MIN_R2)
           /\ (Has(r, "latest_model") \/ Has(r, "latest_metrics")) => local[r].promote
           /\ pc[r] \in {"put_latest_model", "put_latest_metrics"} => local[r].promote
      /\ result[r].status = "ok" =>
           /\ result[r].promoted <=>
                (result[r].metrics.rmse < PrevRmse(result[r]) /\ result[r].metrics.r2 >= MIN_R2)
           /\ result[r].promoted <=> (Has(r, "latest_model") /\ Has(r, "latest_metrics"))
           /\ result[r].promoted <=> (Has(r, "latest_model") \/ Has(r, "latest_metrics"))

\* A run was promoted over a stored, finite RMSE and both latest objects
\* are its own.
C1_Witness ==
    \E r \in Runs :
      /\ result[r].status = "ok"
      /\ result[r].promoted
      /\ result[r].prev_rmse # None
      /\ latestModel = ModelObject(r)
      /\ latestMetrics = MetricsObject(r, result[r].metrics)

\* C2 (as claimed): every overwrite of the latest metrics replaces the
\* stored RMSE with a strictly smaller one, for runs executed one after
\* another and for every end of the read of the latest metrics.
C2_RmseNeverIncreases ==
    [][(latestMetrics.has_rmse /\ latestMetrics' # latestMetrics)
          => (latestMetrics'.has_rmse /\ latestMetrics'.rmse < latestMetrics.rmse)]_vars

\* C3 (as claimed): a run that has ended, by a return or by the exception of
\* a failed put, has overwritten both latest objects or neither.
C3_AllOrNothing ==
    \A r \in Runs :
      pc[r] \in {"done", "raised"} => (Has(r, "latest_model") <=> Has(r, "latest_metrics"))

\* C4: when train_and_upload reads the latest metrics and decides while no
\* latest-metrics object exists, the previous RMSE is float("inf") and the
\* run is promoted exactly when its R2 is at least MIN_R2, whatever its RMSE.
C4_Bootstrap ==
    [][\A r \in Runs :
         (pc[r] = "fetch" /\ pc'[r] # "fetch" /\ ~latestMetrics.exists) =>
            /\ pc'[r] = "put_version_model"
            /\ local'[r].old_rmse = Inf
            /\ local'[r].promote <=> (local[r].metrics.r2 >= MIN_R2)]_vars

\* The first run, with the largest RMSE, is being promoted: no latest
\* metrics exist yet, no other run has begun, and the run has replaced the
\* latest model.
C4_Witness ==
    \E r \in Runs :
      /\ pc[r] = "put_latest_metrics"
      /\ \A q \in Runs : q # r => pc[q] = "idle"
      /\ ~latestMetrics.exists
      /\ local[r].promote
      /\ local[r].old_rmse = Inf
      /\ local[r].metrics.rmse = MaxRmse
      /\ latestModel = ModelObject(r)

\* C5: a run that ended without promotion (skip, error, or ok with
\* promoted false) has put no latest object, and every step that changes a
\* latest object is a put of the promotion branch of _upload, taken by a
\* run whose decision is to promote.
C5_Inv ==
    \A r \in Runs :
      (result[r].status \in {"skip", "error"}
         \/ (result[r].status = "ok" /\ ~result[r].promoted))
      => (~Has(r, "latest_model") /\ ~Has(r, "latest_metrics"))
C5_Step ==
    (latestModel' # latestModel \/ latestMetrics' # latestMetrics)
    => \E r \in Runs :
         /\ pc[r] \in {"put_latest_model", "put_latest_metrics"}
         /\ local[r].promote
         /\ pc'[r] # pc[r]
         /\ Len(written'[r]) = Len(written[r]) + 1
         /\ IsLatestKey(written'[r][Len(written'[r])])
C5_LatestOnlyByPromotion == [](C5_Inv) /\ [][C5_Step]_vars

\* A run was not promoted and returned ok while the latest objects are
\* those of another run.
C5_Witness ==
    \E r \in Runs :
      /\ result[r].status = "ok"
      /\ ~result[r].promoted
      /\ latestMetrics.exists /\ latestMetrics.by \notin {0, r}
      /\ latestModel.exists /\ latestModel.by = latestMetrics.by

\* C6: a run whose training returned and that got through the version puts
\* has put exactly one model and one metrics object, both under its one
\* version path, whether or not it is promoted; a run whose training
\* returned and that returns a result returns ok (never an error), with
\* promoted false and nothing but the version written when not promoted.
C6_Inv ==
    \A r \in Runs :
      /\ (pc[r] \in {"put_latest_model", "put_latest_metrics"} \/ result[r].status = "ok")
           => /\ SelectSeq(written[r], IsVersionKey) = <<"version_model", "version_metrics">>
              /\ train_call[r] = "returned"
      /\ pc[r] \in {"put_latest_model", "put_latest_metrics"}
           => /\ versions[local[r].version_dir].model.exists
              /\ versions[local[r].version_dir].metrics.exists
      /\ result[r].status = "ok"
           => /\ versions[result[r].version_dir].model.exists
              /\ versions[result[r].version_dir].metrics.exists
              /\ ~result[r].promoted => written[r] = <<"version_model", "version_metrics">>
      /\ (train_call[r] = "returned" /\ pc[r] = "done") => result[r].status = "ok"
\* The version puts of a run go to its version path and to no other path.
C6_Step ==
    \A r \in Runs :
      (pc[r] \in {"put_version_model", "put_version_metrics"} /\ pc'[r] \notin {pc[r], "raised"})
      => /\ \A p \in VersionPaths : p # local[r].version_dir => versions'[p] = versions[p]
         /\ pc[r] = "put_version_model"
              => versions'[local[r].version_dir].model = ModelObject(r)
         /\ pc[r] = "put_version_metrics"
              => versions'[local[r].version_dir].metrics = MetricsObject(r, local[r].metrics)
C6_VersionAlwaysWritten == [](C6_Inv) /\ [][C6_Step]_vars

\* A run whose R2 is below the floor returned ok, not promoted, and its
\* version holds its model and its metrics.
C6_Witness ==
    \E r \in Runs :
      /\ result[r].status = "ok"
      /\ ~result[r].promoted
      /\ result[r].metrics.r2 < MIN_R2
      /\ versions[result[r].version_dir].model = ModelObject(r)
      /\ versions[result[r].version_dir].metrics = MetricsObject(r, result[r].metrics)

\* C7 (as claimed): an object written to the version history is never
\* overwritten, because no two runs use the same version path.
C7_AppendOnly ==
    [][\A p \in VersionPaths :
         /\ versions[p].model.exists => versions'[p].model = versions[p].model
         /\ versions[p].metrics.exists => versions'[p].metrics = versions[p].metrics]_vars

\* C8 (as claimed): no exception leaves train_and_upload.
C8_NoExceptionEscapes == \A r \in Runs : pc[r] # "raised"

\* C9: when _train_model raises, train_and_upload returns
\* {error, train_failed, msg of the exception} and the run puts nothing:
\* no version object and no latest object is its own.
C9_TrainFailed ==
    \A r \in Runs :
      train_call[r] \in TrainErrors =>
        /\ pc[r] = "done"
        /\ result[r] = [status |-> "error", reason |-> "train_failed", msg |-> train_call[r]]
        /\ written[r] = <<>>
        /\ latestModel.by # r /\ latestMetrics.by # r
        /\ \A p \in VersionPaths : versions[p].model.by # r /\ versions[p].metrics.by # r

\* The stratified split of a run failed while another run has written its
\* version.
C9_Witness ==
    \E r, q \in Runs :
      /\ train_call[r] = "stratify_class_lt_2"
      /\ result[r].status = "error"
      /\ Len(written[q]) >= 2

\* C10: with fewer than MIN_BALANCED_ROWS balanced rows the run returns
\* {skip, too_few_rows, rows} without a call of _train_model and without a
\* put; _train_model is only ever called on at least MIN_BALANCED_ROWS rows
\* and every ok result has trained_on >= MIN_BALANCED_ROWS.
C10_RowGate ==
    \A r \in Runs :
      /\ result[r].status = "skip" =>
           /\ result[r].reason = "too_few_rows"
           /\ result[r].rows < MIN_BALANCED_ROWS
           /\ train_call[r] = "not_called"
           /\ written[r] = <<>>
      /\ (pc[r] = "train" \/ InUpload(r) \/ pc[r] = "fetch")
           => local[r].rows >= MIN_BALANCED_ROWS
      /\ result[r].status = "ok" => result[r].trained_on >= MIN_BALANCED_ROWS

\* A run was skipped with one row less than the floor.
C10_Witness ==
    \E r \in Runs :
      result[r] = [status |-> "skip", reason |-> "too_few_rows",
                   rows |-> MIN_BALANCED_ROWS - 1]

\* C11: a call of train_and_upload whose listing finds no key, whose raw
\* frame is empty or whose prepared table is empty returns a result of
\* status skip or error, raises nothing, trains nothing and writes nothing,
\* whatever the order of start_day and end_day.
C11_Inv ==
    \A r \in Runs :
        (/\ pc[r] = "done"
         /\ "msg" \in DOMAIN result[r]
         /\ result[r].msg \in {"no_s3_data", "load_failed_empty_df", "preprocess_failed"})
        => (/\ result[r].status \in {"skip", "error"}
            /\ train_call[r] = "not_called"
            /\ written[r] = <<>>)
C11_Step ==
    \A r \in Runs :
        (pc[r] = "no_keys" /\ pc'[r] # "no_keys")
        => (/\ pc'[r] = "done"
            /\ result'[r].status \in {"skip", "error"}
            /\ train_call'[r] = "not_called"
            /\ written'[r] = <<>>)
C11_EmptyInputEndsQuietly == [](C11_Inv) /\ [][C11_Step]_vars

\* C12: in a scheduled run the estimate, the sum over the listed objects of
\* size // 200, is taken before anything else; train_and_upload is invoked
\* if and only if the estimate is at least MIN_ROWS, and below MIN_ROWS the
\* job ends with no ingestion, no training and no storage write.
C12_Inv ==
    /\ job.at = "gate" => job.rows = CountRowsInS3Range(job.sizes)
    /\ job.at # "running" => \A r \in Runs : ~InFlight(r)
    /\ job.at = "running" => \A r \in Runs : InFlight(r) => r = job.run
C12_Step ==
    /\ (\E r \in Runs : pc[r] = "idle" /\ pc'[r] # "idle")
         => (job.at = "gate" /\ job.rows >= MIN_ROWS)
    /\ (job.at = "gate" /\ job'.at # "gate") =>
         IF job.rows >= MIN_ROWS
         THEN \E r \in Runs : pc[r] = "idle" /\ pc'[r] = "list" /\ job'.run = r
         ELSE /\ job'.at = "idle" /\ job'.last = "skipped"
              /\ UNCHANGED <<pc, local, train_call, written, result, bucket>>
C12_GateBeforeRun == [](C12_Inv) /\ [][C12_Step]_vars
\* The first job was skipped at the gate and the second has invoked
\* train_and_upload.
C12_Witness ==
    /\ job.last = "skipped"
    /\ job.at = "running"
    /\ pc[job.run] = "load"

\* C13: every RUL of the prepared table is one of 0..MAX_RUL: not negative,
\* not above the cap, not undefined.
C13_RulInRange ==
    \A k \in 1..Len(df_out) : \A e \in DOMAIN df_out[k] :
        \A i \in 1..Len(df_out[k][e]) : df_out[k][e][i].rul \in 0..MAX_RUL
\* A fault more than MAX_RUL rows after the first row, which is capped, and
\* rows after the last fault, which are filled.
C13_Witness ==
    /\ Len(df_out) = 1
    /\ \E e \in Equipments :
         LET g == df_out[1][e] IN
         /\ Len(g) = MAX_RUL + 3
         /\ g[MAX_RUL + 2].faulty = 1
         /\ g[MAX_RUL + 3].faulty = 0
         /\ g[1].rul = MAX_RUL
         /\ g[MAX_RUL + 3].rul = MAX_RUL

\* C14: along one timeline the RUL does not increase from a row that is not
\* faulty to the next row; it may increase only after a faulty row.
C14_NonIncreasing ==
    \A k \in 1..Len(df_out) : \A e \in DOMAIN df_out[k] :
        LET g == df_out[k][e] IN
        \A i \in 1..(Len(g) - 1) :
            /\ g[i].faulty # 1 => g[i].rul >= g[i + 1].rul
            /\ g[i].rul < g[i + 1].rul => (g[i].faulty = 1 /\ g[i].rul = 0)
\* Two faults with a row between them, and a row after the last fault.
C14_Witness ==
    /\ Len(df_out) = 1
    /\ \E e \in Equipments :
         LET g == df_out[1][e] IN
         /\ Len(g) = 3
         /\ g[1].faulty = 0 /\ g[2].faulty = 1 /\ g[3].faulty = 0
         /\ g[1].rul = 1 /\ g[2].rul = 0 /\ g[3].rul = MAX_RUL

\* C15: a timeline without any faulty row has RUL = MAX_RUL on every row,
\* whatever the faults of the other equipment.
C15_NoFaultIsMaxRul ==
    \A k \in 1..Len(df_out) : \A e \in DOMAIN df_out[k] :
        LET g == df_out[k][e] IN
        (\A i \in 1..Len(g) : g[i].faulty = 0)
        => (\A i \in 1..Len(g) : g[i].rul = MAX_RUL)
\* The first equipment has rows and no fault, the second has a fault.
C15_Witness ==
    /\ Len(df_out) = 1
    /\ Len(df_out[1][1]) = 2
    /\ \A i \in 1..2 : df_out[1][1][i].faulty = 0 /\ df_out[1][1][i].rul = MAX_RUL
    /\ Len(df_out[1][2]) >= 1
    /\ df_out[1][2][1].faulty = 1

\* C16: for every table that is not empty the feature builder returns a
\* table that has every numeric column of FEATURE_COLS without a null in it,
\* also when a sensor type never occurs or is missing for some hours of some
\* equipment.
C16_AllFeaturesNoNull ==
    \A k \in 1..Len(df_out) :
        /\ df_out[k].status = "returned"
        /\ \A e \in Equipments : \A i \in 1..Len(df_out[k].table[e]) :
              /\ DOMAIN df_out[k].table[e][i] = NUMERIC_FEATURE_COLS
              /\ \A c \in NUMERIC_FEATURE_COLS : df_out[k].table[e][i][c] # NaN

C18_HighRulPassThrough ==
    \A k \in 1..Len(df_out) : \A i \in 1..Len(df_in) :
        df_in[i].rul > Len(OVER_RATIO) => df_out[k][i] = 1

\* C19: a row whose RUL k is in the table is OVER_RATIO[k] times in the
\* returned frame, so that the frame has OVER_RATIO[k] times the rows of
\* RUL k of the input.
C19_ExactReplication ==
    \A n \in 1..Len(df_out) : \A k \in 1..Len(OVER_RATIO) :
        /\ \A i \in 1..Len(df_in) : df_in[i].rul = k => df_out[n][i] = OVER_RATIO[k]
        /\ Histogram(df_in, df_out[n])[k] = OVER_RATIO[k] * Len(RulEquals(df_in, k))
\* Two rows of RUL 9 came back nineteen times each.
C19_Witness ==
    /\ Len(df_out) >= 1
    /\ Len(RulEquals(df_in, 9)) = 2
    /\ Histogram(df_in, df_out[1])[9] = 2 * OVER_RATIO[9]

\* C20: a retained reading has alert = 1 if and only if its value is below
\* lo or above hi of the threshold of its sensor type; a value equal to lo
\* or to hi does not alert.
C20_AlertIffOutside ==
    \A k \in 1..Len(df_out) : \A i \in 1..Len(df_out[k]) :
        LET rd == df_out[k][i]
            t == ALERT_THRESH[SensorMap(rd.sensorType)]
        IN  rd.alert = 1 <=> (rd.val < t.lo \/ rd.val > t.hi)

\* C21: a row of the wide table has fault_flag = 1 if and only if at least
\* two readings of its equipment in its hour are alerting, and a single
\* anomalous sensor alone never sets the flag.
C21_FaultyIffTwoAlerts ==
    \A k \in 1..Len(df_out) : \A key \in DOMAIN df_out[k] :
        LET alerting == {i \in 1..Len(df_in) :
                            /\ df_in[i].sensorType \in KEEP
                            /\ <<df_in[i].ts_hour, df_in[i].equipId>> = key
                            /\ Alert(df_in[i]) = 1}
        IN  /\ df_out[k][key] = 1 <=> Cardinality(alerting) >= 2
            /\ df_out[k][key] = 1 =>
                  Cardinality({df_in[i].sensorType : i \in alerting}) >= 2

\* C22: per equipment a faulty row has RUL 0; a row that is not faulty has
\* the number of hours until the next faulty hour of the equipment, capped
\* at MAX_RUL, also when hours of the timeline have no row; a row without
\* later fault has MAX_RUL.
C22_HoursToNextFault ==
    \A k \in 1..Len(df_out) : \A e \in DOMAIN df_out[k] :
        LET g == df_out[k][e] IN
        \A i \in 1..Len(g) :
            LET later == {j \in (i + 1)..Len(g) : g[j].faulty = 1} IN
            IF g[i].faulty = 1 THEN g[i].rul = 0
            ELSE IF later = {} THEN g[i].rul = MAX_RUL
            ELSE LET j == CHOOSE x \in later : \A y \in later : x <= y
                     hours == g[j].hour - g[i].hour
                 IN  g[i].rul = IF hours > MAX_RUL THEN MAX_RUL ELSE hours

\* C23: a missing raw value is filled from the rows of the same equipment
\* only: two tables that differ in the readings of the second equipment give
\* the first equipment the same feature values.
C23_ImputationConfined ==
    (/\ Len(df_out) = 2
     /\ df_out[1].status = "returned"
     /\ df_out[2].status = "returned")
    => df_out[1].table[1] = df_out[2].table[1]

\* C24: within one service instance at most one execution of
\* train_and_upload is in progress, whatever the interleaving of the daily
\* job and the POST /retrain background tasks.
C24_AtMostOneRunInFlight ==
    Cardinality({r \in Runs : InFlight(r)}) <= 1

\* C25: an exception that leaves train_and_upload is caught by
\* run_retrain_job, which then returns to the scheduler, and the job calls
\* train_and_upload at most once per trigger: no more runs were started than
\* triggers fired, and a failed run is followed by no second call.
C25_CaughtAndNotRetried ==
    /\ [](Cardinality({r \in Runs : pc[r] # "idle"}) <= job.fired)
    /\ [][(job.at = "running" /\ pc[job.run] = "raised" /\ job' # job)
            => (job'.at = "idle" /\ job'.last = "caught" /\ pc' = pc)]_vars

C25_Witness ==
    /\ job.at = "idle"
    /\ job.last = "caught"
    /\ job.fired = 1
    /\ \E r \in Runs : pc[r] = "raised"

\* C26: whenever no run is in progress, the latest model and the latest
\* metrics were written by the same run, whatever the interleaving of the
\* puts of overlapping runs and whichever put failed.
C26_LatestPairOfOneRun ==
    (\A r \in Runs : ~InFlight(r)) =>
        ((latestModel.by # 0 \/ latestMetrics.by # 0) =>
            latestModel.by = latestMetrics.by)

\* C27: the model under the latest key is the model under some version
\* path of the history.
C27_LatestModelInHistory ==
    latestModel.exists => \E p \in VersionPaths : versions[p].model = latestModel
====
